---- MODULE Spec2Model ----
(***************************************************************************)
(* Model of fun::Fraction<Z> (include/py2cpp/fractions.hpp) for a signed   *)
(* integral Z.  Z is modelled by the mathematical integers inside the      *)
(* range in which no C++ operation overflows; stored values are capped by  *)
(* MaxVal in the guards of the actions.                                    *)
(*                                                                         *)
(* A state holds the caller's fraction object x (the `*this` / Fraction     *)
(* operand of every call) and the record of the call in progress: its      *)
(* name op, the value x0 that x had when it was made, its other Fraction   *)
(* argument y, its integer argument i, and what it returned (res for a     *)
(* Fraction, bres for a bool).  The record is dropped when the caller's    *)
(* statement ends (op = "idle"), and the next call starts from there.      *)
(***************************************************************************)
EXTENDS Integers, Sequences, FiniteSets, TLC

VARIABLES x, y, i, op, x0, res, bres

vars == <<x, y, i, op, x0, res, bres>>

\* ------------------------------------------------------------------ bounds
\* largest |numerator| / |denominator| passed to a constructor
MaxIn == 4
\* largest |integer operand|
MaxInt == 3
\* largest |numerator| and denominator a stored fraction may have
MaxVal == 8

InRange(f) == /\ f.num >= -MaxVal /\ f.num <= MaxVal
              /\ f.den >= -MaxVal /\ f.den <= MaxVal

\* --------------------------------------------- C++ integer division, remainder
\* a / b of C++ (truncation toward zero), b # 0
CDiv(a, b) ==
  LET ua == IF a < 0 THEN -a ELSE a
      ub == IF b < 0 THEN -b ELSE b
      q  == ua \div ub
  IN IF (a < 0) = (b < 0) THEN q ELSE -q

\* a % b of C++ (sign of the dividend), b # 0
CMod(a, b) == a - b * CDiv(a, b)

\* ------------------------------------------------------------ numeric helpers
abs(a) == IF a < 0 THEN -a ELSE a

RECURSIVE gcd_recur(_, _)
gcd_recur(m, n) == IF n = 0 THEN abs(m) ELSE gcd_recur(n, CMod(m, n))

gcd(m, n) == IF m = 0 THEN abs(n) ELSE gcd_recur(m, n)

\* ------------------------------------------------------ the Fraction struct
Frac(n, d) == [num |-> n, den |-> d]

normalize1(f) == IF f.den < 0 THEN Frac(-f.num, -f.den) ELSE f

\* the value normalize2 returns
common2(f) == gcd(f.num, f.den)

\* the fields normalize2 leaves behind
normalize2(f) ==
  LET common == gcd(f.num, f.den)
  IN IF common = 1 \/ common = 0
       THEN f
       ELSE Frac(CDiv(f.num, common), CDiv(f.den, common))

normalize(f) == normalize2(normalize1(f))

\* Fraction(Z num, Z den)
Fraction2(n, d) == normalize(Frac(n, d))

\* Fraction(const Z& num), Fraction(Z&& num)
Fraction1(n) == Frac(n, 1)

\* Fraction()
Fraction0 == Frac(0, 1)

cross(f, rhs) == f.num * rhs.den - f.den * rhs.num

\* --------------------------------------------------------------- comparisons
\* operator==(const Fraction&, const Z&)
eqFZ(lhs, rhs) ==
  IF lhs.den = 1 \/ rhs = 0
    THEN lhs.num = rhs
    ELSE LET lhs2 == normalize2(Frac(lhs.num, rhs))
             rhs2 == lhs.den
         IN lhs2.num < lhs2.den * rhs2

\* operator<(const Fraction&, const Z&)
ltFZ(lhs, rhs) ==
  IF lhs.den = 1 \/ rhs = 0
    THEN lhs.num < rhs
    ELSE LET lhs2 == normalize2(Frac(lhs.num, rhs))
             rhs2 == lhs.den
         IN lhs2.num < lhs2.den * rhs2

\* ltZF with the gcd-reduced slow path left out
ltZF_NoSlowPath(lhs, rhs) == lhs < rhs.num

\* operator<(const Z&, const Fraction&)
ltZF(lhs, rhs) ==
  IF rhs.den = 1 \/ lhs = 0
    THEN lhs < rhs.num
    ELSE LET rhs2 == normalize2(Frac(rhs.num, lhs))
             lhs2 == rhs.den
         IN rhs2.den * lhs2 < rhs2.num

\* operator==(const Z&, const Fraction&)
eqZF(lhs, rhs) == eqFZ(rhs, lhs)

\* operator==(const Fraction&, const Fraction&)
eqFF(lhs, rhs) ==
  IF lhs.den = rhs.den
    THEN lhs.num = rhs.num
    ELSE LET lhs2 == normalize2(Frac(lhs.num, rhs.num))
             rhs2 == normalize2(Frac(lhs.den, rhs.den))
         IN lhs2.num * rhs2.den = lhs2.den * rhs2.num

\* ltFF multiplying the fields as if lhs2._den and rhs2._num had not been swapped
ltFF_NoSwap(lhs, rhs) ==
  IF lhs.den = rhs.den
    THEN lhs.num < rhs.num
    ELSE LET lhs2 == normalize2(Frac(lhs.num, rhs.num))
             rhs2 == normalize2(Frac(lhs.den, rhs.den))
         IN lhs2.num * lhs2.den < rhs2.num * rhs2.den

\* operator<(const Fraction&, const Fraction&)
ltFF(lhs, rhs) ==
  IF lhs.den = rhs.den
    THEN lhs.num < rhs.num
    ELSE LET lhs2 == normalize2(Frac(lhs.num, rhs.num))
             rhs2 == normalize2(Frac(lhs.den, rhs.den))
         IN lhs2.num * rhs2.den < lhs2.den * rhs2.num

\* operator!=, >, >=, <= (const Fraction&)
neFF(f, rhs) == ~eqFF(f, rhs)
gtFF(f, rhs) == ltFF(rhs, f)
geFF(f, rhs) == ~ltFF(f, rhs)
leFF(f, rhs) == ~ltFF(rhs, f)

\* member operator>, <=, >= (const Z&)
gtFZ(f, rhs) == ltZF(rhs, f)
leFZ(f, rhs) == ~ltZF(rhs, f)
geFZ(f, rhs) == ~ltFZ(f, rhs)

\* friend operator>, <=, >= (const Z&, const Fraction&)
gtZF(lhs, rhs) == ltFZ(rhs, lhs)
leZF(lhs, rhs) == ~ltFZ(rhs, lhs)
geZF(lhs, rhs) == ~ltZF(lhs, rhs)

\* ---------------------------------------------------------------- arithmetic
\* reciprocal without the normalize1 call
reciprocal_NoNormalize1(f) == Frac(f.den, f.num)

\* reciprocal()
reciprocal(f) == normalize1(Frac(f.den, f.num))

\* operator*=(Fraction rhs)
mulAssignFF(f, rhs) ==
  LET t == normalize2(Frac(rhs.num, f.den))
      r == normalize2(Frac(f.num, rhs.den))
  IN Frac(t.num * r.num, t.den * r.den)

\* operator*(Fraction lhs, const Fraction& rhs)
mulFF(lhs, rhs) == mulAssignFF(lhs, rhs)

\* operator*=(Z rhs)
mulAssignFZ(f, rhs) ==
  LET t == normalize2(Frac(rhs, f.den))
  IN Frac(t.num * f.num, t.den)

\* operator*(Fraction lhs, const Z& rhs)
mulFZ(lhs, rhs) == mulAssignFZ(lhs, rhs)

\* operator*(const Z& lhs, Fraction rhs)
mulZF(lhs, rhs) == mulAssignFZ(rhs, lhs)

\* operator/=(Fraction rhs)
divAssignFF(f, rhs) ==
  LET t == normalize(Frac(f.num, rhs.num))
      r == normalize2(Frac(f.den, rhs.den))
  IN Frac(t.num * r.den, t.den * r.num)

\* operator/(Fraction lhs, const Fraction& rhs)
divFF(lhs, rhs) == divAssignFF(lhs, rhs)

\* operator/=(Z) calling normalize2 where the code calls normalize
divAssignFZ_NoSign(f, rhs) ==
  LET t == normalize2(Frac(f.num, rhs))
  IN Frac(t.num, t.den * f.den)

\* operator/=(Z) returning *this untouched when rhs is 0
divAssignFZ_SkipZero(f, rhs) ==
  IF rhs = 0
    THEN f
    ELSE LET t == normalize(Frac(f.num, rhs))
         IN Frac(t.num, t.den * f.den)

\* operator/=(Z rhs)
divAssignFZ(f, rhs) ==
  LET t == normalize(Frac(f.num, rhs))
  IN Frac(t.num, t.den * f.den)

\* operator/(Fraction lhs, const Z& rhs)
divFZ(lhs, rhs) == divAssignFZ(lhs, rhs)

\* operator/(const Z& lhs, Fraction rhs)
divZF(lhs, rhs) == mulAssignFZ(reciprocal(rhs), lhs)

\* operator-() const
neg(f) == Frac(-f.num, f.den)

\* operator+ with l and r exchanged in the numerator
addFF_SwappedLR(f, rhs) ==
  IF f.den = rhs.den
    THEN Fraction2(f.num + rhs.num, f.den)
    ELSE LET common == gcd(f.den, rhs.den)
         IN IF common = 0
              THEN Fraction2(rhs.den * f.num + f.den * rhs.num, 0)
              ELSE LET l == CDiv(f.den, common)
                       r == CDiv(rhs.den, common)
                       d == f.den * r
                       n == l * f.num + r * rhs.num
                   IN Fraction2(n, d)

\* operator+ without the equal-denominator path
addFF_NoFastPath(f, rhs) ==
  LET common == gcd(f.den, rhs.den)
  IN IF common = 0
       THEN Fraction2(rhs.den * f.num + f.den * rhs.num, 0)
       ELSE LET l == CDiv(f.den, common)
                r == CDiv(rhs.den, common)
                d == f.den * r
                n == r * f.num + l * rhs.num
            IN Fraction2(n, d)

\* operator+(const Fraction& rhs) const
addFF(f, rhs) ==
  IF f.den = rhs.den
    THEN Fraction2(f.num + rhs.num, f.den)
    ELSE LET common == gcd(f.den, rhs.den)
         IN IF common = 0
              THEN Fraction2(rhs.den * f.num + f.den * rhs.num, 0)
              ELSE LET l == CDiv(f.den, common)
                       r == CDiv(rhs.den, common)
                       d == f.den * r
                       n == r * f.num + l * rhs.num
                   IN Fraction2(n, d)

\* operator-(const Fraction& frac) const
subFF(f, frac) == addFF(f, neg(frac))

\* operator-=(Fraction) without `_num *= common_n`
subAssignFF_DropCommonN(f, rhs) ==
  IF f.den = rhs.den
    THEN normalize2(Frac(f.num - rhs.num, f.den))
    ELSE LET t1 == Frac(f.num, rhs.num)
             o1 == Frac(f.den, rhs.den)
             t2 == normalize2(t1)
             common_d == common2(o1)
             o2 == normalize2(o1)
             t3 == Frac(t2.num, o2.num)
             o3 == Frac(t2.den, o2.den)
             t4 == Frac(cross(t3, o3), t3.den)
             t5 == Frac(t4.num, t4.den * o3.den)
             t6 == normalize2(Frac(t5.num, common_d))
             t7 == Frac(t6.num, t6.den * t5.den)
         IN normalize2(t7)

\* operator-=(const Fraction& rhs)
subAssignFF(f, rhs) ==
  IF f.den = rhs.den
    THEN normalize2(Frac(f.num - rhs.num, f.den))
    ELSE LET t1 == Frac(f.num, rhs.num)
             o1 == Frac(f.den, rhs.den)
             common_n == common2(t1)
             t2 == normalize2(t1)
             common_d == common2(o1)
             o2 == normalize2(o1)
             t3 == Frac(t2.num, o2.num)
             o3 == Frac(t2.den, o2.den)
             t4 == Frac(cross(t3, o3), t3.den)
             t5 == Frac(t4.num, t4.den * o3.den)
             t6 == normalize2(Frac(t5.num, common_d))
             t7 == Frac(t6.num * common_n, t6.den * t5.den)
         IN normalize2(t7)

\* operator+=(const Fraction& rhs)
addAssignFF(f, rhs) == subAssignFF(f, neg(rhs))

\* operator-=(Z) without `_num *= common_n`
subAssignFZ_DropCommonN(f, rhs) ==
  IF f.den = 1
    THEN Frac(f.num - rhs, f.den)
    ELSE LET t2 == normalize2(Frac(f.num, rhs))
             t3 == Frac(t2.num, f.den)
             other == t2.den
             t4 == Frac(t3.num - other * t3.den, t3.den)
         IN normalize2(t4)

\* operator-=(const Z& rhs)
subAssignFZ(f, rhs) ==
  IF f.den = 1
    THEN Frac(f.num - rhs, f.den)
    ELSE LET t1 == Frac(f.num, rhs)
             common_n == common2(t1)
             t2 == normalize2(t1)
             t3 == Frac(t2.num, f.den)
             other == t2.den
             t4 == Frac(t3.num - other * t3.den, t3.den)
             t5 == Frac(t4.num * common_n, t4.den)
         IN normalize2(t5)

\* operator+=(const Z& i)
addAssignFZ(f, n) == subAssignFZ(f, -n)

\* operator+(Fraction frac, const Z& i)
addFZ(frac, n) == addAssignFZ(frac, n)

\* operator+(const Z& i, Fraction frac)
addZF(n, frac) == addAssignFZ(frac, n)

\* operator-(const Z& i) const
subFZ(f, n) == addFZ(f, -n)

\* operator-(const Z& c, const Fraction& frac)
subZF(c, frac) == addZF(c, neg(frac))

\* operator+(int&& c, const Fraction& frac)
addIntF(c, frac) == addFZ(frac, c)

\* operator-(int&& c, const Fraction& frac)
subIntF(c, frac) == addFZ(neg(frac), c)

\* operator*(int&& c, const Fraction& frac)
mulIntF(c, frac) == mulFZ(frac, c)

\* ------------------------------------------------------------------- state
Ints == -MaxInt..MaxInt

\* the values a caller can build with the three constructors
Constructed ==
  {Fraction2(n, d) : n \in -MaxIn..MaxIn, d \in -MaxIn..MaxIn}
    \cup {Fraction1(n) : n \in -MaxIn..MaxIn} \cup {Fraction0}

Init ==
  /\ x \in Constructed
  /\ x0 = x
  /\ y = Fraction0
  /\ i = 0
  /\ op = "idle"
  /\ res = Fraction0
  /\ bres = FALSE

\* the call `name` with arguments x, yy, ii: it leaves newx in x and returns r or b
Call(name, yy, ii, newx, r, b) ==
  /\ op = "idle"
  /\ InRange(newx)
  /\ InRange(r)
  /\ op' = name
  /\ x0' = x
  /\ y' = yy
  /\ i' = ii
  /\ x' = newx
  /\ res' = r
  /\ bres' = b

\* a call that leaves *this alone and returns the Fraction r
Returns(name, yy, ii, r) == Call(name, yy, ii, x, r, FALSE)

\* a call that stores r in *this and returns a reference to it
Assigns(name, yy, ii, r) == Call(name, yy, ii, r, r, FALSE)

\* a call that returns the bool b
Compares(name, yy, ii, b) == Call(name, yy, ii, x, Fraction0, b)

\* the caller's statement ends: the returned temporary and the arguments go away
Discard ==
  /\ op # "idle"
  /\ op' = "idle"
  /\ x0' = x
  /\ y' = Fraction0
  /\ i' = 0
  /\ res' = Fraction0
  /\ bres' = FALSE
  /\ UNCHANGED x

\* -------------------------------------------------------------- constructors
\* x = Fraction(n, d), d # 0
Construct2 ==
  \E n \in -MaxIn..MaxIn, d \in -MaxIn..MaxIn :
    d # 0 /\ Assigns("Fraction2", Fraction0, 0, Fraction2(n, d))

\* x = Fraction(n, 0)
Construct2ZeroDen ==
  \E n \in -MaxIn..MaxIn : Assigns("Fraction2_zero_den", Fraction0, 0, Fraction2(n, 0))

\* x = Fraction(n)
Construct1 == \E n \in -MaxIn..MaxIn : Assigns("Fraction1", Fraction0, 0, Fraction1(n))

\* x = Fraction()
Construct0 == Assigns("Fraction0", Fraction0, 0, Fraction0)

\* ---------------------------------------------------- one action per operator
\* g is the Fraction argument, n the integer argument of the call

Call_eqFZ == \E n \in Ints : Compares("eqFZ", Fraction0, n, eqFZ(x, n))

Call_ltFZ == \E n \in Ints : Compares("ltFZ", Fraction0, n, ltFZ(x, n))

Call_ltZF == \E n \in Ints : Compares("ltZF", Fraction0, n, ltZF(n, x))

Call_eqZF == \E n \in Ints : Compares("eqZF", Fraction0, n, eqZF(n, x))

Call_eqFF == \E g \in Constructed : Compares("eqFF", g, 0, eqFF(x, g))

Call_ltFF == \E g \in Constructed : Compares("ltFF", g, 0, ltFF(x, g))

Call_neFF == \E g \in Constructed : Compares("neFF", g, 0, neFF(x, g))

Call_gtFF == \E g \in Constructed : Compares("gtFF", g, 0, gtFF(x, g))

Call_geFF == \E g \in Constructed : Compares("geFF", g, 0, geFF(x, g))

Call_leFF == \E g \in Constructed : Compares("leFF", g, 0, leFF(x, g))

Call_gtFZ == \E n \in Ints : Compares("gtFZ", Fraction0, n, gtFZ(x, n))

Call_leFZ == \E n \in Ints : Compares("leFZ", Fraction0, n, leFZ(x, n))

Call_geFZ == \E n \in Ints : Compares("geFZ", Fraction0, n, geFZ(x, n))

Call_gtZF == \E n \in Ints : Compares("gtZF", Fraction0, n, gtZF(n, x))

Call_leZF == \E n \in Ints : Compares("leZF", Fraction0, n, leZF(n, x))

Call_geZF == \E n \in Ints : Compares("geZF", Fraction0, n, geZF(n, x))

Call_mulFF == \E g \in Constructed : Returns("mulFF", g, 0, mulFF(x, g))

Call_mulFZ == \E n \in Ints : Returns("mulFZ", Fraction0, n, mulFZ(x, n))

Call_mulZF == \E n \in Ints : Returns("mulZF", Fraction0, n, mulZF(n, x))

Call_divFF == \E g \in Constructed : Returns("divFF", g, 0, divFF(x, g))

Call_divFZ == \E n \in Ints : Returns("divFZ", Fraction0, n, divFZ(x, n))

Call_divZF == \E n \in Ints : Returns("divZF", Fraction0, n, divZF(n, x))

Call_neg == Returns("neg", Fraction0, 0, neg(x))

Call_addFF == \E g \in Constructed : Returns("addFF", g, 0, addFF(x, g))

Call_subFF == \E g \in Constructed : Returns("subFF", g, 0, subFF(x, g))

Call_addFZ == \E n \in Ints : Returns("addFZ", Fraction0, n, addFZ(x, n))

Call_addZF == \E n \in Ints : Returns("addZF", Fraction0, n, addZF(n, x))

Call_subFZ == \E n \in Ints : Returns("subFZ", Fraction0, n, subFZ(x, n))

Call_subZF == \E n \in Ints : Returns("subZF", Fraction0, n, subZF(n, x))

Call_addIntF == \E n \in Ints : Returns("addIntF", Fraction0, n, addIntF(n, x))

Call_subIntF == \E n \in Ints : Returns("subIntF", Fraction0, n, subIntF(n, x))

Call_mulIntF == \E n \in Ints : Returns("mulIntF", Fraction0, n, mulIntF(n, x))

Call_reciprocal == Assigns("reciprocal", Fraction0, 0, reciprocal(x))

Call_mulAssignFF == \E g \in Constructed : Assigns("mulAssignFF", g, 0, mulAssignFF(x, g))

Call_mulAssignFZ == \E n \in Ints : Assigns("mulAssignFZ", Fraction0, n, mulAssignFZ(x, n))

Call_divAssignFF == \E g \in Constructed : Assigns("divAssignFF", g, 0, divAssignFF(x, g))

Call_divAssignFZ == \E n \in Ints : Assigns("divAssignFZ", Fraction0, n, divAssignFZ(x, n))

Call_addAssignFF == \E g \in Constructed : Assigns("addAssignFF", g, 0, addAssignFF(x, g))

Call_subAssignFF == \E g \in Constructed : Assigns("subAssignFF", g, 0, subAssignFF(x, g))

Call_addAssignFZ == \E n \in Ints : Assigns("addAssignFZ", Fraction0, n, addAssignFZ(x, n))

Call_subAssignFZ == \E n \in Ints : Assigns("subAssignFZ", Fraction0, n, subAssignFZ(x, n))

Next ==
  \/ Construct2
  \/ Construct2ZeroDen
  \/ Construct1
  \/ Construct0
  \/ Call_eqFZ
  \/ Call_ltFZ
  \/ Call_ltZF
  \/ Call_eqZF
  \/ Call_eqFF
  \/ Call_ltFF
  \/ Call_neFF
  \/ Call_gtFF
  \/ Call_geFF
  \/ Call_leFF
  \/ Call_gtFZ
  \/ Call_leFZ
  \/ Call_geFZ
  \/ Call_gtZF
  \/ Call_leZF
  \/ Call_geZF
  \/ Call_mulFF
  \/ Call_mulFZ
  \/ Call_mulZF
  \/ Call_divFF
  \/ Call_divFZ
  \/ Call_divZF
  \/ Call_neg
  \/ Call_addFF
  \/ Call_subFF
  \/ Call_addFZ
  \/ Call_addZF
  \/ Call_subFZ
  \/ Call_subZF
  \/ Call_addIntF
  \/ Call_subIntF
  \/ Call_mulIntF
  \/ Call_reciprocal
  \/ Call_mulAssignFF
  \/ Call_mulAssignFZ
  \/ Call_divAssignFF
  \/ Call_divAssignFZ
  \/ Call_addAssignFF
  \/ Call_subAssignFF
  \/ Call_addAssignFZ
  \/ Call_subAssignFZ
  \/ Discard

Spec == Init /\ [][Next]_vars

\* ======================================================== reference notions
\* (mathematics the claims are stated in; none of it is computed by the code)
Sgn(a) == IF a < 0 THEN -1 ELSE IF a = 0 THEN 0 ELSE 1

Divides(d, n) == \E k \in 0..abs(n) : k * d = abs(n)

\* den > 0 and gcd(|num|, den) = 1
Canonical(f) ==
  /\ f.den > 0
  /\ \A d \in 2..f.den : ~(Divides(d, f.num) /\ Divides(d, f.den))

\* f is the canonical form of the rational n/d, d # 0
IsCanonOf(f, n, d) == Canonical(f) /\ f.num * d = n * f.den

ExactlyOne(p, q, r) ==
  \/ (p /\ ~q /\ ~r) \/ (~p /\ q /\ ~r) \/ (~p /\ ~q /\ r)

FracOfInt == Fraction2(i, 1)

CtorOps == {"Fraction2", "Fraction1", "Fraction0"}

\* the calls of C1 that take x and return or leave behind a fraction
ArithOps ==
  {"mulFF", "mulFZ", "mulZF", "divFF", "divFZ", "divZF", "neg", "addFF", "subFF",
   "addFZ", "addZF", "subFZ", "subZF", "addIntF", "subIntF", "mulIntF",
   "reciprocal", "mulAssignFF", "mulAssignFZ", "divAssignFF", "divAssignFZ",
   "addAssignFF", "subAssignFF", "addAssignFZ", "subAssignFZ"}

\* the call recorded in the state divided by a zero value
ZeroDivision ==
  \/ op \in {"divFF", "divAssignFF"} /\ y.num = 0
  \/ op \in {"divFZ", "divAssignFZ"} /\ i = 0
  \/ op \in {"divZF", "reciprocal"} /\ x0.num = 0

\* ================================================================== claims
\* C1: canonical form is preserved: a constructor call with den # 0 leaves a
\* fraction with den > 0 and gcd(|num|, den) = 1, and every arithmetic call
\* (+, -, *, /, their in-place forms, against a Fraction or an integer in
\* either order, unary minus, reciprocal) made on canonical operands that does
\* not divide by a zero value leaves and returns such a fraction again.
C1_CanonicalPreserved ==
  [][ /\ (op' \in CtorOps) => (Canonical(x') /\ Canonical(res'))
      /\ (/\ op' \in ArithOps
          /\ Canonical(x)
          /\ Canonical(y')
          /\ ~ZeroDivision') => (Canonical(x') /\ Canonical(res')) ]_vars

C1_Witness ==
  /\ op = "divAssignFZ"
  /\ Canonical(x0)
  /\ x0.num > 1
  /\ x0.den > 1
  /\ i < -1
  /\ Divides(abs(i), x0.num)
  /\ Canonical(x)

\* C2 (as claimed): f == i and i == f are true exactly when f.num = i * f.den,
\* for every fraction f with den > 0 and every integer i.
C2_IntEqualityExact ==
  (op \in {"eqFZ", "eqZF"} /\ x.den > 0) => (bres <=> (x.num = i * x.den))

\* C3: exactly one of a < b, a == b, b < a is true; with positive denominators
\* a < b iff a.num * b.den < b.num * a.den and a == b iff the products are
\* equal; !=, >, <=, >= are the negations / argument swaps of == and <.
C3_TotalOrder ==
  /\ ExactlyOne(ltFF(x, y), eqFF(x, y), ltFF(y, x))
  /\ (x.den > 0 /\ y.den > 0) =>
       /\ (op = "ltFF") => (bres <=> (x.num * y.den < y.num * x.den))
       /\ (op = "eqFF") => (bres <=> (x.num * y.den = y.num * x.den))
       /\ (op = "neFF") => (bres <=> (x.num * y.den # y.num * x.den))
       /\ (op = "gtFF") => (bres <=> (y.num * x.den < x.num * y.den))
       /\ (op = "leFF") => (bres <=> (x.num * y.den <= y.num * x.den))
       /\ (op = "geFF") => (bres <=> (x.num * y.den >= y.num * x.den))
  /\ (op = "neFF") => (bres <=> ~eqFF(x, y))
  /\ (op = "gtFF") => (bres <=> ltFF(y, x))
  /\ (op = "leFF") => (bres <=> ~ltFF(y, x))
  /\ (op = "geFF") => (bres <=> ~ltFF(x, y))

C3_Witness ==
  /\ op = "ltFF"
  /\ x.den > 0 /\ y.den > 0 /\ x.den # y.den
  /\ gcd(x.num, y.num) > 1
  /\ gcd(x.den, y.den) > 1
  /\ bres

\* C4: on canonical a/b and c/d, + and += give the canonical form of
\* (a*d + b*c)/(b*d), - and -= that of (a*d - b*c)/(b*d), * and *= that of
\* (a*c)/(b*d), / and /= (c # 0) that of (a*d)/(b*c); operator+ and operator+=
\* return field-for-field identical results.
C4_ExactArithmetic ==
  (Canonical(x0) /\ Canonical(y)) =>
    LET a == x0.num
        b == x0.den
        c == y.num
        d == y.den
    IN /\ (op \in {"addFF", "addAssignFF"}) => IsCanonOf(res, a * d + b * c, b * d)
       /\ (op \in {"subFF", "subAssignFF"}) => IsCanonOf(res, a * d - b * c, b * d)
       /\ (op \in {"mulFF", "mulAssignFF"}) => IsCanonOf(res, a * c, b * d)
       /\ (op \in {"divFF", "divAssignFF"} /\ c # 0) => IsCanonOf(res, a * d, b * c)
       /\ (op \in {"addAssignFF", "subAssignFF", "mulAssignFF", "divAssignFF"})
            => x = res
       /\ (op = "addAssignFF") => res = addFF(x0, y)
       /\ (op = "addFF") => res = addAssignFF(x0, y)

C4_Witness ==
  /\ op = "addAssignFF"
  /\ Canonical(x0) /\ Canonical(y)
  /\ x0.den # y.den
  /\ gcd(x0.den, y.den) > 1
  /\ gcd(x0.num, y.num) > 1
  /\ x.den < x0.den * y.den
  /\ x = addFF(x0, y)

\* C5: f + (-f) == Fraction(0,1) and f + Fraction(0,1) == f are true for
\* every fraction f.
C5_AdditiveIdentityInverse ==
  /\ eqFF(addFF(x, neg(x)), Fraction2(0, 1))
  /\ eqFF(addFF(x, Fraction2(0, 1)), x)
  /\ (op = "addFF" /\ y = neg(x)) => eqFF(res, Fraction2(0, 1))
  /\ (op = "addFF" /\ y = Fraction2(0, 1)) => eqFF(res, x)

C5_Witness ==
  /\ op = "addFF"
  /\ y = neg(x)
  /\ x.num # 0
  /\ x.den > 1
  /\ res = Fraction2(0, 1)

\* C6: for f with num # 0 and den > 0, the reciprocal r of f has den > 0,
\* r.num = sign(f.num) * f.den, r.den = |f.num|, and f * r == Fraction(1,1).
C6_MultiplicativeInverse ==
  /\ (x.num # 0 /\ x.den > 0) =>
       LET r == reciprocal(x)
       IN /\ r.den > 0
          /\ r.num = Sgn(x.num) * x.den
          /\ r.den = abs(x.num)
          /\ eqFF(mulFF(x, r), Fraction2(1, 1))
  /\ (op = "reciprocal" /\ x0.num # 0 /\ x0.den > 0) =>
       /\ x = Frac(Sgn(x0.num) * x0.den, abs(x0.num))
       /\ eqFF(mulFF(x0, x), Fraction2(1, 1))

C6_Witness ==
  /\ op = "reciprocal"
  /\ x0.num < -1
  /\ x0.den > 1
  /\ x = Frac(-x0.den, -x0.num)

\* C7: f / Fraction(0,n), f /= Fraction(0,n), f / Z(0), f /= Z(0) and
\* i / Fraction(0,n) complete and return a fraction whose den is 0.
C7_DegenerateDivision ==
  /\ (op \in {"divFF", "divAssignFF"} /\ y.num = 0) => res.den = 0
  /\ (op \in {"divFZ", "divAssignFZ"} /\ i = 0) => res.den = 0
  /\ (op = "divZF" /\ x.num = 0) => res.den = 0
  /\ \A g \in Constructed :
       (g.num = 0) => (divFF(x, g).den = 0 /\ divAssignFF(x, g).den = 0)
  /\ divFZ(x, 0).den = 0
  /\ divAssignFZ(x, 0).den = 0
  /\ \A n \in Ints, g \in Constructed : (g.num = 0) => divZF(n, g).den = 0

C7_Witness ==
  /\ op = "divAssignFF"
  /\ x0.den > 1
  /\ x0.num # 0
  /\ y = Frac(0, 0)
  /\ x.den = 0

\* C8: on a canonical f, every mixed fraction/integer operation returns the
\* num and den of the fraction-fraction operation on f and Fraction(i, 1).
C8_MixedAsFraction ==
  Canonical(x0) =>
    /\ (op \in {"addFZ", "addZF", "addIntF"}) => res = addFF(x0, FracOfInt)
    /\ (op = "addZF") => res = addFF(FracOfInt, x0)
    /\ (op = "subFZ") => res = subFF(x0, FracOfInt)
    /\ (op \in {"subZF", "subIntF"}) => res = subFF(FracOfInt, x0)
    /\ (op = "mulFZ") => res = mulFF(x0, FracOfInt)
    /\ (op \in {"mulZF", "mulIntF"}) => res = mulFF(FracOfInt, x0)
    /\ (op = "divFZ" /\ i # 0) => res = divFF(x0, FracOfInt)
    /\ (op = "divZF" /\ x0.num # 0) => res = divFF(FracOfInt, x0)
    /\ (op = "addAssignFZ") => (res = addAssignFF(x0, FracOfInt) /\ x = res)
    /\ (op = "subAssignFZ") => (res = subAssignFF(x0, FracOfInt) /\ x = res)
    /\ (op = "mulAssignFZ") => (res = mulAssignFF(x0, FracOfInt) /\ x = res)
    /\ (op = "divAssignFZ" /\ i # 0) => (res = divAssignFF(x0, FracOfInt) /\ x = res)

C8_Witness ==
  /\ op = "subAssignFZ"
  /\ Canonical(x0)
  /\ x0.den > 1
  /\ gcd(x0.num, i) > 1
  /\ x = subFF(x0, FracOfInt)

\* C9: with den > 0, f < i iff f.num < i * f.den and i < f iff
\* i * f.den < f.num, on the fast and on the slow path; the derived operators
\* are the stated swaps / negations.
C9_IntOrderingExact ==
  (x.den > 0) =>
    /\ (op = "ltFZ") => (bres <=> (x.num < i * x.den))
    /\ (op = "ltZF") => (bres <=> (i * x.den < x.num))
    /\ (op = "gtFZ") => (bres <=> (i * x.den < x.num) /\ bres = ltZF(i, x))
    /\ (op = "leFZ") => (bres <=> (x.num <= i * x.den) /\ bres = ~ltZF(i, x))
    /\ (op = "geFZ") => (bres <=> (x.num >= i * x.den) /\ bres = ~ltFZ(x, i))
    /\ (op = "gtZF") => (bres <=> (x.num < i * x.den) /\ bres = ltFZ(x, i))
    /\ (op = "leZF") => (bres <=> (i * x.den <= x.num) /\ bres = ~ltFZ(x, i))
    /\ (op = "geZF") => (bres <=> (i * x.den >= x.num) /\ bres = ~ltZF(i, x))

C9_Witness ==
  /\ op = "ltZF"
  /\ x.den > 1
  /\ i < -1
  /\ gcd(x.num, i) > 1
  /\ bres

\* C10 (as claimed): adding or subtracting two fractions whose denominators
\* are both zero returns denominator 0 and numerator d*a +/- b*c.
C10_SentinelNumerator ==
  /\ (op = "addFF" /\ x.den = 0 /\ y.den = 0) =>
       (res.den = 0 /\ res.num = y.den * x.num + x.den * y.num)
  /\ (op = "subFF" /\ x.den = 0 /\ y.den = 0) =>
       (res.den = 0 /\ res.num = y.den * x.num - x.den * y.num)

\* C10 (amended): adding or subtracting a/0 and c/0 does not fail and returns
\* denominator 0 and numerator sign(a +/- c): the equal-denominator path
\* Fraction(a +/- c, 0) is taken, the gcd == 0 branch is never reached.
C10_SentinelFastPath ==
  /\ (op = "addFF" /\ x.den = 0 /\ y.den = 0) =>
       (res.den = 0 /\ res.num = Sgn(x.num + y.num))
  /\ (op = "subFF" /\ x.den = 0 /\ y.den = 0) =>
       (res.den = 0 /\ res.num = Sgn(x.num - y.num))
  /\ \A g \in Constructed :
       (x.den = 0 /\ g.den = 0) =>
         /\ addFF(x, g) = Frac(Sgn(x.num + g.num), 0)
         /\ subFF(x, g) = Frac(Sgn(x.num - g.num), 0)

C10_Witness ==
  /\ op = "addFF"
  /\ x = Frac(1, 0)
  /\ y = Frac(1, 0)
  /\ res = Frac(1, 0)

====
